---- MODULE Spec2Model ----
(***************************************************************************)
(* Model of the terminal snake game (snakes/game.py, main.py).             *)
(*                                                                         *)
(* A Game owns a toroidal grid of Cells, a reference to the head Cell, a   *)
(* food Cell, a score, a sleep time and the flags game_over and quit.  Two *)
(* threads share it: refresh_game_state (the tick thread) and take_input   *)
(* (the input thread).  Both call move_snake under grid_lock.              *)
(*                                                                         *)
(* Python objects are modelled by value: a Cell is a record, the grid a    *)
(* function from positions to Cells, and a reference to a Cell of the      *)
(* current grid is its position.  A reference into a grid that has been    *)
(* replaced is "stale": writes through it reach no Cell of the game.       *)
(* sleep_time is the exact rational num/den (float rounding is not         *)
(* modelled).                                                              *)
(***************************************************************************)
EXTENDS Integers, FiniteSets, Sequences, TLC

\* ---------------------------------------------------------------- bounds
\* Grids of 1..MaxRows rows and 1..MaxCols columns with at most MaxCells cells.
MaxRows == 3
MaxCols == 3
MaxCells == 6
\* The growth path is explored while score < MaxScore.
MaxScore == 2
\* Grid extents of the pure-function specification.
MaxDim == 4

\* ------------------------------------------------------------- constants
LEFT == "LEFT"
DOWN == "DOWN"
RIGHT == "RIGHT"
UP == "UP"
Direction == {LEFT, DOWN, RIGHT, UP}
None == "None"

EMPTY == " "
BODY == "0"
HEAD == "#"
FOOD == "@"

Threads == {"tick", "input"}
NoPos == <<-1, -1>>

\* Characters the input source can deliver: the four bindings, quit, and one
\* character outside the mapping (also stands for a read that returns no data).
Chars == {"k", "h", "j", "l", "q", "x"}

\* ------------------------------------------------------- pure functions
\* opposite with its last two branches returning the same direction.
opposite_same_for_vertical(d) ==
    IF d = LEFT THEN RIGHT
    ELSE IF d = RIGHT THEN LEFT
    ELSE UP

\* opposite with the branch of RIGHT returning RIGHT.
opposite_right_unchanged(d) ==
    IF d = LEFT THEN RIGHT
    ELSE IF d = RIGHT THEN RIGHT
    ELSE IF d = UP THEN DOWN
    ELSE UP

opposite(d) ==
    IF d = LEFT THEN RIGHT
    ELSE IF d = RIGHT THEN LEFT
    ELSE IF d = UP THEN DOWN
    ELSE UP

\* next_location without the wrap on the decrementing directions.
next_location_no_wrap(row_count, col_count, x, y, direction) ==
    CASE direction = LEFT -> <<x, y - 1>>
      [] direction = RIGHT -> <<x, (y + 1) % col_count>>
      [] direction = DOWN -> <<(x + 1) % row_count, y>>
      [] direction = UP -> <<x - 1, y>>
      [] OTHER -> <<x, y>>

next_location(row_count, col_count, x, y, direction) ==
    CASE direction = LEFT -> <<x, (y - 1) % col_count>>
      [] direction = RIGHT -> <<x, (y + 1) % col_count>>
      [] direction = DOWN -> <<(x + 1) % row_count, y>>
      [] direction = UP -> <<(x - 1) % row_count, y>>
      [] OTHER -> <<x, y>>

direction_mapping ==
    [c \in {"k", "h", "j", "l"} |->
        CASE c = "k" -> UP [] c = "h" -> LEFT [] c = "j" -> DOWN [] OTHER -> RIGHT]

Cell == [value |-> EMPTY, moving |-> None]

\* The sleep time assigned 0.9 instead of multiplied by it.
update_sleep_time_assign(s) == [num |-> 9, den |-> 10]

update_sleep_time(s) == [num |-> 9 * s.num, den |-> 10 * s.den]

\* ----------------------------------------------------------------- state
VARIABLES
    row_count, col_count,   \* Game.row_count, Game.col_count
    grid,                   \* Game.__grid: position -> Cell
    head,                   \* Game.__head: position of the referenced Cell in grid
    food,                   \* Game.food: position of the referenced Cell
    score,                  \* Game.__score
    sleep_time,             \* Game.__sleep_time as num/den
    game_over, quit,        \* Game.game_over, Game.quit
    grid_lock,              \* "free" or the thread holding grid_lock
    phase,                  \* start_game: init_head, init_food, constructed, running, reported
    pc,                     \* position of each thread
    mv,                     \* move_snake locals of each thread
    inp,                    \* take_input locals: new_direction and the head reference
    pre,                    \* history: game state when the running move_snake began
    outcome,                \* history: how the last move_snake ended, until it is rendered
    inputResult,            \* history: what take_input just did with the character read
    tickHist,               \* history of the tick thread: whether its last loop test
                            \* passed with game_over set, and the advances it began
                            \* after quit was set
    fn                      \* arguments and results of the pure-function specification

vars == <<row_count, col_count, grid, head, food, score, sleep_time, game_over, quit,
          grid_lock, phase, pc, mv, inp, pre, outcome, inputResult, tickHist, fn>>

dims == <<row_count, col_count>>
game == <<grid, head, food, score, sleep_time, game_over, quit>>
hist == <<pre, outcome, inputResult, tickHist>>

PosSet(r, c) == (0 .. r - 1) \X (0 .. c - 1)
Pos == PosSet(row_count, col_count)

generate_screen(r, c) == [p \in PosSet(r, c) |-> Cell]

NoMove == [k |-> 0, new_grid |-> <<>>, new_head |-> NoPos, from |-> NoPos, to |-> NoPos]
NoInput == [dir |-> None, pos |-> NoPos, live |-> FALSE]
NoPre == [grid |-> <<>>, head |-> NoPos, food |-> NoPos, score |-> 0,
          sleep_time |-> [num |-> 1, den |-> 1], by |-> "none", dir |-> None]
NoResult == [char |-> "", res |-> "none"]
NoTickHist == [over |-> FALSE, afterQuit |-> 0]
FnIdle == [stage |-> "idle"]

Sizes ==
    {rc \in (1 .. MaxRows) \X (1 .. MaxCols) : rc[1] * rc[2] <= MaxCells}

\* Game.__init__ up to __generate_screen; the head and the food follow as steps.
Init ==
    /\ \E rc \in Sizes : row_count = rc[1] /\ col_count = rc[2]
    /\ grid = generate_screen(row_count, col_count)
    /\ head = NoPos
    /\ food = NoPos
    /\ score = 0
    /\ sleep_time = [num |-> 1, den |-> 1]
    /\ game_over = FALSE
    /\ quit = FALSE
    /\ grid_lock = "free"
    /\ phase = "init_head"
    /\ pc = [t \in Threads |-> "loop"]
    /\ mv = [t \in Threads |-> NoMove]
    /\ inp = NoInput
    /\ pre = NoPre
    /\ outcome = "none"
    /\ inputResult = NoResult
    /\ tickHist = NoTickHist
    /\ fn = FnIdle

\* ---------------------------------------------------------- construction
\* The head placed without its heading.
initiate_head_no_heading(g, p, d) == [g EXCEPT ![p].value = HEAD]

initiate_head(g, p, d) == [g EXCEPT ![p] = [value |-> HEAD, moving |-> d]]

InitiateHead ==
    /\ phase = "init_head"
    /\ \E p \in Pos, d \in Direction :
        /\ grid' = initiate_head(grid, p, d)
        /\ head' = p
    /\ phase' = "init_food"
    /\ UNCHANGED <<dims, food, score, sleep_time, game_over, quit, grid_lock, pc, mv,
                   inp, hist, fn>>

\* One iteration of the loop of __generate_food with the random position p.
food_placed(g, p) == g[p].value = EMPTY
generate_food(g, p) == IF food_placed(g, p) THEN [g EXCEPT ![p].value = FOOD] ELSE g

InitFood ==
    /\ phase = "init_food"
    /\ \E p \in Pos :
        /\ grid' = generate_food(grid, p)
        /\ food' = IF food_placed(grid, p) THEN p ELSE food
        /\ phase' = IF food_placed(grid, p) THEN "constructed" ELSE phase
    /\ UNCHANGED <<dims, head, score, sleep_time, game_over, quit, grid_lock, pc, mv,
                   inp, hist, fn>>

\* start_game: the first render, then both threads are started.
StartGame ==
    /\ phase = "constructed"
    /\ phase' = "running"
    /\ UNCHANGED <<dims, game, grid_lock, pc, mv, inp, hist, fn>>

\* --------------------------------------------------------- move_snake
\* The game as move_snake finds it, the calling thread, and for a call made by
\* take_input the direction it accepted.
Snapshot(t) ==
    [grid |-> grid, head |-> head, food |-> food, score |-> score,
     sleep_time |-> sleep_time, by |-> t, dir |-> IF t = "input" THEN inp.dir ELSE None]

\* The history of the tick thread when it enters move_snake: one more advance
\* begun after quit (counted up to 2), and the result of the loop test is used up.
began_advance(h) ==
    [over |-> FALSE,
     afterQuit |-> IF quit /\ h.afterQuit < 2 THEN h.afterQuit + 1 ELSE h.afterQuit]

\* "with grid_lock:" entered, then the first statements of move_snake: the
\* candidate grid new_grid is allocated all Empty.
Acquire(t) ==
    /\ phase = "running"
    /\ pc[t] = "acquire"
    /\ grid_lock = "free"
    /\ grid_lock' = t
    /\ pc' = [pc EXCEPT ![t] = "scan"]
    /\ mv' = [mv EXCEPT ![t] = [NoMove EXCEPT !.new_grid = generate_screen(row_count, col_count)]]
    /\ pre' = Snapshot(t)
    /\ outcome' = "running"
    /\ inp' = IF t = "input" THEN NoInput ELSE inp
    /\ tickHist' = IF t = "tick" THEN began_advance(tickHist) ELSE tickHist
    /\ UNCHANGED <<dims, game, phase, inputResult, fn>>

PosOf(k) == <<k \div col_count, k % col_count>>

\* The thread ends inside move_snake and keeps the lock.
Raise_keeps_lock(t, how) ==
    /\ pc' = [pc EXCEPT ![t] = how]
    /\ mv' = [mv EXCEPT ![t] = NoMove]
    /\ grid_lock' = grid_lock
    /\ pre' = NoPre

\* An uncaught exception inside "with grid_lock:" ends the thread; the lock is released.
Raise(t, how) ==
    /\ pc' = [pc EXCEPT ![t] = how]
    /\ mv' = [mv EXCEPT ![t] = NoMove]
    /\ grid_lock' = "free"
    /\ pre' = NoPre

\* Collision detected after the candidate grid was committed.
Collide_after_commit(t) ==
    /\ game_over' = TRUE
    /\ Raise(t, "exited")
    /\ outcome' = "collision"
    /\ grid' = mv[t].new_grid
    /\ UNCHANGED <<head, food, score, sleep_time, quit>>

\* Collision: game_over is set and sys.exit(0) ends the calling thread.
Collide(t) ==
    /\ game_over' = TRUE
    /\ Raise(t, "exited")
    /\ outcome' = "collision"
    /\ UNCHANGED <<grid, head, food, score, sleep_time, quit>>

\* The candidate grid after the cell at p (Body or Head, heading cell.moving) is
\* written at its next location n (normal path).
write_candidate(ng, g, p, n) ==
    [ng EXCEPT ![n] = [value |-> g[p].value,
                       moving |-> IF g[p].value = HEAD THEN g[p].moving ELSE g[n].moving]]

\* One iteration of the double loop of move_snake, on the cell of index mv[t].k.
ScanCell(t) ==
    /\ phase = "running"
    /\ pc[t] = "scan"
    /\ mv[t].k < row_count * col_count
    /\ LET p == PosOf(mv[t].k)
           cell == grid[p]
           n == next_location(row_count, col_count, p[1], p[2], cell.moving)
       IN  IF cell.value = EMPTY THEN
               /\ mv' = [mv EXCEPT ![t].k = @ + 1]
               /\ UNCHANGED <<game, grid_lock, pc, pre, outcome>>
           ELSE IF cell.value = FOOD THEN
               /\ mv' = [mv EXCEPT ![t].k = @ + 1, ![t].new_grid[p].value = FOOD]
               /\ UNCHANGED <<game, grid_lock, pc, pre, outcome>>
           ELSE IF cell.moving = None THEN
               \* assert cell.moving is not None
               /\ Raise(t, "crashed")
               /\ outcome' = "crash"
               /\ UNCHANGED game
           ELSE IF grid[n].value = FOOD THEN
               IF cell.value # HEAD THEN
                   \* assert cell.is_head()
                   /\ Raise(t, "crashed")
                   /\ outcome' = "crash"
                   /\ UNCHANGED game
               ELSE
                   \* growth path: the old head becomes Body in place
                   /\ score < MaxScore
                   /\ grid' = [grid EXCEPT ![p] = [value |-> BODY, moving |-> cell.moving]]
                   /\ mv' = [mv EXCEPT ![t].from = p, ![t].to = n]
                   /\ pc' = [pc EXCEPT ![t] = "grow"]
                   /\ UNCHANGED <<head, food, score, sleep_time, game_over, quit,
                                  grid_lock, pre, outcome>>
           ELSE IF cell.value = HEAD /\ grid[n].value = BODY THEN
               Collide(t)
           ELSE
               /\ mv' = [mv EXCEPT ![t].k = @ + 1,
                                   ![t].new_grid = write_candidate(@, grid, p, n),
                                   ![t].new_head = IF cell.value = HEAD THEN n ELSE @]
               /\ UNCHANGED <<game, grid_lock, pc, pre, outcome>>
    /\ UNCHANGED <<dims, phase, inp, inputResult, tickHist, fn>>

\* Growth path, continued: the food Cell becomes the Head with the heading read
\* from the old head Cell, and the score is incremented.
Grow(t) ==
    /\ phase = "running"
    /\ pc[t] = "grow"
    /\ grid' = [grid EXCEPT ![mv[t].to] = [value |-> HEAD, moving |-> grid[mv[t].from].moving]]
    /\ score' = score + 1
    /\ pc' = [pc EXCEPT ![t] = "new_food"]
    /\ UNCHANGED <<dims, head, food, sleep_time, game_over, quit, grid_lock, phase, mv,
                   inp, hist, fn>>

\* Growth path, end: one iteration of __generate_food with the random position
\* p; on success the head reference and the sleep time are updated, move_snake
\* returns and the lock is released.
NewFood(t) ==
    /\ phase = "running"
    /\ pc[t] = "new_food"
    /\ \E p \in Pos :
        /\ grid' = generate_food(grid, p)
        /\ IF food_placed(grid, p) THEN
               /\ food' = p
               /\ head' = mv[t].to
               /\ sleep_time' = update_sleep_time(sleep_time)
               /\ grid_lock' = "free"
               /\ pc' = [pc EXCEPT ![t] = "render"]
               /\ mv' = [mv EXCEPT ![t] = NoMove]
               /\ pre' = NoPre
               /\ outcome' = "growth"
           ELSE
               UNCHANGED <<food, head, sleep_time, grid_lock, pc, mv, pre, outcome>>
    /\ UNCHANGED <<dims, score, game_over, quit, phase, inp, inputResult, tickHist, fn>>

\* The head reference held by take_input after another thread replaced the grid.
Detach(t) ==
    IF t # "input" /\ pc["input"] = "write" THEN [inp EXCEPT !.live = FALSE] ELSE inp

\* The commit of a normal tick shortening the sleep time as a growth does.
Commit_updates_sleep_time(t) ==
    /\ phase = "running"
    /\ pc[t] = "scan"
    /\ mv[t].k = row_count * col_count
    /\ IF mv[t].new_head = NoPos THEN
           /\ Raise(t, "crashed")
           /\ outcome' = "crash"
           /\ UNCHANGED <<grid, head, inp, sleep_time>>
       ELSE
           /\ grid' = mv[t].new_grid
           /\ head' = mv[t].new_head
           /\ inp' = Detach(t)
           /\ sleep_time' = update_sleep_time(sleep_time)
           /\ grid_lock' = "free"
           /\ pc' = [pc EXCEPT ![t] = "render"]
           /\ mv' = [mv EXCEPT ![t] = NoMove]
           /\ pre' = NoPre
           /\ outcome' = "moved"
    /\ UNCHANGED <<dims, food, score, game_over, quit, phase, inputResult, tickHist, fn>>

\* update_grid_and_head(new_grid, new_head) after the scan, then the lock is
\* released.  new_head is unbound when the scan met no Head.
Commit(t) ==
    /\ phase = "running"
    /\ pc[t] = "scan"
    /\ mv[t].k = row_count * col_count
    /\ IF mv[t].new_head = NoPos THEN
           /\ Raise(t, "crashed")
           /\ outcome' = "crash"
           /\ UNCHANGED <<grid, head, inp>>
       ELSE
           /\ grid' = mv[t].new_grid
           /\ head' = mv[t].new_head
           /\ inp' = Detach(t)
           /\ grid_lock' = "free"
           /\ pc' = [pc EXCEPT ![t] = "render"]
           /\ mv' = [mv EXCEPT ![t] = NoMove]
           /\ pre' = NoPre
           /\ outcome' = "moved"
    /\ UNCHANGED <<dims, food, score, sleep_time, game_over, quit, phase, inputResult, tickHist, fn>>

\* The frame render_screen prints for the grid g: the value of every cell, an
\* Empty cell of the last row shown as "_".
render_screen(g) ==
    [p \in DOMAIN g |->
        IF p[1] = row_count - 1 /\ g[p].value = EMPTY THEN "_" ELSE g[p].value]

\* render_screen after the lock was released; it reads the grid and the score.
Render(t) ==
    /\ phase = "running"
    /\ pc[t] = "render"
    /\ pc' = [pc EXCEPT ![t] = "loop"]
    /\ outcome' = IF outcome = "running" THEN outcome ELSE "none"
    /\ UNCHANGED <<dims, game, grid_lock, phase, mv, inp, pre, inputResult, tickHist, fn>>

\* ------------------------------------------------- refresh_game_state
\* The loop test of the tick thread testing game_over instead of quit.
TickLoop_tests_game_over ==
    /\ phase = "running"
    /\ pc["tick"] = "loop"
    /\ pc' = [pc EXCEPT !["tick"] = IF game_over THEN "done" ELSE "sleep"]
    /\ tickHist' = [tickHist EXCEPT !.over = FALSE]
    /\ UNCHANGED <<dims, game, grid_lock, phase, mv, inp, pre, outcome, inputResult, fn>>

\* "while not self.quit": the loop test of the tick thread.
TickLoop ==
    /\ phase = "running"
    /\ pc["tick"] = "loop"
    /\ pc' = [pc EXCEPT !["tick"] = IF quit THEN "done" ELSE "sleep"]
    /\ tickHist' = [tickHist EXCEPT !.over = game_over /\ ~quit]
    /\ UNCHANGED <<dims, game, grid_lock, phase, mv, inp, pre, outcome, inputResult, fn>>

\* time.sleep(self.__sleep_time) returns.
TickSleep ==
    /\ phase = "running"
    /\ pc["tick"] = "sleep"
    /\ pc' = [pc EXCEPT !["tick"] = "acquire"]
    /\ UNCHANGED <<dims, game, grid_lock, phase, mv, inp, hist, fn>>

\* --------------------------------------------------------- take_input
\* "while not self.game_over": the loop test of the input thread.
InputLoop ==
    /\ phase = "running"
    /\ pc["input"] = "loop"
    /\ pc' = [pc EXCEPT !["input"] = IF game_over THEN "done" ELSE "read"]
    /\ inputResult' = NoResult
    /\ UNCHANGED <<dims, game, grid_lock, phase, mv, inp, pre, outcome, tickHist, fn>>

\* The test that accepts a new direction against the heading of the head Cell.
\* The acceptance test without its reversal clause.
accepts_reversal(new_direction, moving) ==
    new_direction # moving

accepts(new_direction, moving) ==
    new_direction # moving /\ new_direction # opposite(moving)

\* One character c is read and handled up to the decision: quit, a KeyError
\* for a character outside the mapping, or the test of the new direction
\* against the Cell that self.head designates.
TakeInput(c) ==
    /\ phase = "running"
    /\ pc["input"] = "read"
    /\ IF c = "q" THEN
           /\ quit' = TRUE
           /\ pc' = [pc EXCEPT !["input"] = "exited"]
           /\ inputResult' = [char |-> c, res |-> "quit"]
           /\ UNCHANGED inp
       ELSE IF c \notin DOMAIN direction_mapping THEN
           /\ pc' = [pc EXCEPT !["input"] = "loop"]
           /\ inputResult' = [char |-> c, res |-> "ignored"]
           /\ UNCHANGED <<quit, inp>>
       ELSE IF grid[head].moving = None THEN
           \* assert head.moving is not None
           /\ pc' = [pc EXCEPT !["input"] = "crashed"]
           /\ inputResult' = [char |-> c, res |-> "crash"]
           /\ UNCHANGED <<quit, inp>>
       ELSE IF accepts(direction_mapping[c], grid[head].moving) THEN
           /\ pc' = [pc EXCEPT !["input"] = "write"]
           /\ inp' = [dir |-> direction_mapping[c], pos |-> head, live |-> TRUE]
           /\ inputResult' = [char |-> c, res |-> "accepted"]
           /\ UNCHANGED quit
       ELSE
           /\ pc' = [pc EXCEPT !["input"] = "loop"]
           /\ inputResult' = [char |-> c, res |-> "rejected"]
           /\ UNCHANGED <<quit, inp>>
    /\ UNCHANGED <<dims, grid, head, food, score, sleep_time, game_over, grid_lock, phase,
                   mv, pre, outcome, tickHist, fn>>

\* "head.moving = new_direction" through the reference read before; the
\* reference is dropped, new_direction is kept until move_snake is entered.
WriteHeading ==
    /\ phase = "running"
    /\ pc["input"] = "write"
    /\ grid' = IF inp.live THEN [grid EXCEPT ![inp.pos].moving = inp.dir] ELSE grid
    /\ inp' = [NoInput EXCEPT !.dir = inp.dir]
    /\ pc' = [pc EXCEPT !["input"] = "acquire"]
    /\ inputResult' = NoResult
    /\ UNCHANGED <<dims, head, food, score, sleep_time, game_over, quit, grid_lock, phase,
                   mv, pre, outcome, tickHist, fn>>

\* ------------------------------------------------------------ start_game
Terminated == {"done", "exited", "crashed"}

\* Both joins returned: display_score.
DisplayScore ==
    /\ phase = "running"
    /\ \A t \in Threads : pc[t] \in Terminated
    /\ phase' = "reported"
    /\ UNCHANGED <<dims, game, grid_lock, pc, mv, inp, hist, fn>>

Step(t) ==
    \/ Acquire(t)
    \/ ScanCell(t)
    \/ Grow(t)
    \/ NewFood(t)
    \/ Commit(t)
    \/ Render(t)

Next ==
    \/ InitiateHead
    \/ InitFood
    \/ StartGame
    \/ TickLoop
    \/ TickSleep
    \/ InputLoop
    \/ \E c \in Chars : TakeInput(c)
    \/ WriteHeading
    \/ \E t \in Threads : Step(t)
    \/ DisplayScore

Spec == Init /\ [][Next]_vars

\* Operations one at a time: while a thread is inside an operation on the grid
\* (an accepted direction change with its move_snake, or a tick's move_snake)
\* the other thread takes no step.
InOperation(t) ==
    \/ pc[t] \in {"scan", "grow", "new_food"}
    \/ t = "input" /\ pc[t] \in {"write", "acquire"}

Quiet == \A t \in Threads : ~InOperation(t)

SeqNext ==
    \/ Quiet /\ InitiateHead
    \/ Quiet /\ InitFood
    \/ Quiet /\ StartGame
    \/ Quiet /\ TickLoop
    \/ Quiet /\ TickSleep
    \/ Quiet /\ InputLoop
    \/ Quiet /\ \E c \in Chars : TakeInput(c)
    \/ Quiet /\ \E t \in Threads : Acquire(t)
    \/ Quiet /\ \E t \in Threads : Render(t)
    \/ Quiet /\ DisplayScore
    \/ WriteHeading
    \/ \E t \in Threads : InOperation(t) /\ Acquire(t)
    \/ \E t \in Threads : ScanCell(t)
    \/ \E t \in Threads : Grow(t)
    \/ \E t \in Threads : NewFood(t)
    \/ \E t \in Threads : Commit(t)

SeqSpec == Init /\ [][SeqNext]_vars

\* ------------------------------------- specification of the pure functions
\* next_location and opposite applied to arguments drawn from bounded sets.
FnInit ==
    /\ row_count = 1
    /\ col_count = 1
    /\ grid = generate_screen(1, 1)
    /\ head = NoPos
    /\ food = NoPos
    /\ score = 0
    /\ sleep_time = [num |-> 1, den |-> 1]
    /\ game_over = FALSE
    /\ quit = FALSE
    /\ grid_lock = "free"
    /\ phase = "functions"
    /\ pc = [t \in Threads |-> "loop"]
    /\ mv = [t \in Threads |-> NoMove]
    /\ inp = NoInput
    /\ pre = NoPre
    /\ outcome = "none"
    /\ inputResult = NoResult
    /\ tickHist = NoTickHist
    /\ \E r \in 1 .. MaxDim, c \in 1 .. MaxDim, d \in Direction :
        \E x \in 0 .. r - 1, y \in 0 .. c - 1 :
            fn = [stage |-> "args", rows |-> r, cols |-> c, x |-> x, y |-> y, d |-> d,
                  out |-> NoPos, back |-> NoPos, opp |-> None, twice |-> None]

ApplyNextLocation ==
    /\ fn.stage = "args"
    /\ fn' = [fn EXCEPT !.stage = "moved",
                        !.out = next_location(fn.rows, fn.cols, fn.x, fn.y, fn.d)]
    /\ UNCHANGED <<dims, game, grid_lock, phase, pc, mv, inp, hist>>

\* d.opposite and d.opposite.opposite, and the step back from the location
\* reached with d.
ApplyOpposite ==
    /\ fn.stage = "moved"
    /\ fn' = [fn EXCEPT !.stage = "back",
                        !.opp = opposite(fn.d),
                        !.twice = opposite(opposite(fn.d)),
                        !.back = next_location(fn.rows, fn.cols, fn.out[1], fn.out[2],
                                               opposite(fn.d))]
    /\ UNCHANGED <<dims, game, grid_lock, phase, pc, mv, inp, hist>>

FnNext == ApplyNextLocation \/ ApplyOpposite

FnSpec == FnInit /\ [][FnNext]_vars

\* ------------------------------------------------------------------ claims
\* v + n, v or v - n: the representative of v in 0 .. n - 1 for v in -1 .. n.
Wrap(v, n) == IF v < 0 THEN v + n ELSE IF v >= n THEN v - n ELSE v

ExpectedLocation(r, c, x, y, d) ==
    CASE d = LEFT -> <<x, Wrap(y - 1, c)>>
      [] d = RIGHT -> <<x, Wrap(y + 1, c)>>
      [] d = UP -> <<Wrap(x - 1, r), y>>
      [] d = DOWN -> <<Wrap(x + 1, r), y>>

\* C1: for in-bounds (x, y), next_location is (x, (y-1) mod cols) for Left,
\* (x, (y+1) mod cols) for Right, ((x-1) mod rows, y) for Up and
\* ((x+1) mod rows, y) for Down, and the result lies in [0,rows) x [0,cols).
C1_NextLocation ==
    fn.stage \in {"moved", "back"} =>
        /\ fn.out = ExpectedLocation(fn.rows, fn.cols, fn.x, fn.y, fn.d)
        /\ fn.out[1] \in 0 .. fn.rows - 1
        /\ fn.out[2] \in 0 .. fn.cols - 1

\* A step off the last column of a grid of at least three columns was computed.
C1_Witness ==
    /\ fn.stage = "moved"
    /\ fn.cols >= 3
    /\ fn.y = fn.cols - 1
    /\ fn.d = RIGHT
    /\ fn.out = <<fn.x, 0>>

\* C2: next_location with d and then with opposite(d) returns to (x, y).
C2_RoundTrip ==
    fn.stage = "back" => fn.back = <<fn.x, fn.y>>

\* A round trip over the upper edge of a grid of at least three rows was computed.
C2_Witness ==
    /\ fn.stage = "back"
    /\ fn.rows >= 3
    /\ fn.x = 0
    /\ fn.d = UP
    /\ fn.out = <<fn.rows - 1, fn.y>>
    /\ fn.back = <<0, fn.y>>

HeadCells(g) == {p \in DOMAIN g : g[p].value = HEAD}
FoodCells(g) == {p \in DOMAIN g : g[p].value = FOOD}
SnakeCells(g) == {p \in DOMAIN g : g[p].value \in {HEAD, BODY}}

InAdvance(t) == pc[t] \in {"scan", "grow", "new_food"}

\* The step with which thread t leaves move_snake (by return, sys.exit or an
\* exception).
Returns(t) == InAdvance(t) /\ ~InAdvance(t)'

\* C3: with operations executed one at a time, after every advance() that
\* returns without ending the game the grid holds exactly one Head cell and
\* exactly one Food cell.
C3_OneHeadOneFood ==
    outcome \in {"moved", "growth"} =>
        /\ Cardinality(HeadCells(grid)) = 1
        /\ Cardinality(FoodCells(grid)) = 1

\* C4: the number of snake cells (Head plus Body) after an advance() is the
\* number before plus 1 on a growth tick and the number before otherwise.
C4_SnakeCount ==
    [][\A t \in Threads :
          Returns(t) =>
              Cardinality(SnakeCells(grid')) =
                  Cardinality(SnakeCells(pre.grid)) + (IF outcome' = "growth" THEN 1 ELSE 0)]_vars

\* The heading of the Head cell of the grid, when there is exactly one.
TheHead == CHOOSE p \in HeadCells(grid) : TRUE
HeadHeading == grid[TheHead].moving

Recognized == {"k", "h", "j", "l", "q"}
Bindings == <<"k", UP>> :> TRUE @@ <<"h", LEFT>> :> TRUE @@ <<"j", DOWN>> :> TRUE
            @@ <<"l", RIGHT>> :> TRUE

\* The character c is unrecognized, or bound to the Head's heading or to the
\* opposite of it (Up/Down and Left/Right are the opposite pairs).
Ignorable(c) ==
    \/ c \notin Recognized
    \/ /\ Cardinality(HeadCells(grid)) = 1
       /\ \/ <<c, HeadHeading>> \in DOMAIN Bindings
          \/ \E d \in Direction :
                /\ <<c, d>> \in DOMAIN Bindings
                /\ {d, HeadHeading} \in {{UP, DOWN}, {LEFT, RIGHT}}

\* C5: an input character that is unrecognized, or that maps to the Head's
\* current heading or to its opposite, changes nothing (grid, head reference,
\* food, score, tick interval, both flags) and invokes no advance(): the input
\* thread is back at its loop test without having written or taken the lock.
C5_RejectionIsNoOp ==
    [][(pc["input"] = "read" /\ pc'["input"] # "read" /\ Ignorable(inputResult'.char)) =>
          /\ UNCHANGED <<grid, head, food, score, sleep_time, game_over, quit>>
          /\ UNCHANGED <<grid_lock, mv>>
          /\ pc'["input"] = "loop"]_vars

\* A reversal was just submitted to a snake that has a body, and was rejected.
C5_Witness ==
    /\ inputResult.res = "rejected"
    /\ pc["input"] = "loop"
    /\ Cardinality(HeadCells(grid)) = 1
    /\ Cardinality(SnakeCells(grid)) >= 2
    /\ \E d \in Direction :
          /\ <<inputResult.char, d>> \in DOMAIN Bindings
          /\ d # HeadHeading
          /\ {d, HeadHeading} \in {{UP, DOWN}, {LEFT, RIGHT}}

\* The heading of the Head when the running move_snake began, and the cell it
\* then pointed at.
PreHeading == pre.grid[pre.head].moving
PreTarget ==
    ExpectedLocation(row_count, col_count, pre.head[1], pre.head[2], PreHeading)

GrowthCase ==
    /\ pre.grid[pre.head].value = HEAD
    /\ pre.grid[PreTarget].value = FOOD
    /\ PreTarget = pre.food

\* C6: growth tick.  When advance() runs with the Head's next_location equal
\* to the Food cell, afterwards the old Head position is Body with the same
\* heading, the old Food position is Head with that heading, every other snake
\* cell is as it was, score is one higher, the tick interval was multiplied by
\* 0.9 once, and exactly one Food sits on a cell that was Empty before.
C6_GrowthTick ==
    [][\A t \in Threads :
          (Returns(t) /\ GrowthCase) =>
              /\ grid'[pre.head] = [value |-> BODY, moving |-> PreHeading]
              /\ grid'[pre.food] = [value |-> HEAD, moving |-> PreHeading]
              /\ \A p \in SnakeCells(pre.grid) \ {pre.head} : grid'[p] = pre.grid[p]
              /\ score' = pre.score + 1
              /\ 10 * sleep_time'.num * pre.sleep_time.den
                    = 9 * pre.sleep_time.num * sleep_time'.den
              /\ Cardinality(FoodCells(grid')) = 1
              /\ \A p \in FoodCells(grid') : pre.grid[p].value = EMPTY]_vars

\* A snake with a body has just grown a second time.
C6_Witness ==
    /\ outcome = "growth"
    /\ score = 2
    /\ Cardinality(SnakeCells(grid)) = 3
    /\ 100 * sleep_time.num = 81 * sleep_time.den

CollisionCase ==
    /\ pre.grid[pre.head].value = HEAD
    /\ pre.grid[PreTarget].value = BODY

\* C7: collision.  When advance() runs and the Head's next_location is a Body
\* cell of the current grid, game_over becomes true, the calling thread ends
\* and nothing is committed: grid, head reference, food, score and tick
\* interval are as before the call.
C7_Collision ==
    [][\A t \in Threads :
          (Returns(t) /\ CollisionCase) =>
              /\ game_over'
              /\ pc'[t] = "exited"
              /\ grid' = pre.grid
              /\ head' = pre.head
              /\ food' = pre.food
              /\ score' = pre.score
              /\ sleep_time' = pre.sleep_time]_vars

\* A collision has just ended a thread, and the Body cell hit is the tail: no
\* other snake cell points at it.
C7_Witness ==
    /\ outcome = "collision"
    /\ game_over
    /\ grid[head].value = HEAD
    /\ LET n == ExpectedLocation(row_count, col_count, head[1], head[2], grid[head].moving)
       IN  /\ grid[n].value = BODY
           /\ \A p \in SnakeCells(grid) \ {head} :
                 ExpectedLocation(row_count, col_count, p[1], p[2], grid[p].moving) # n

Kinds(g) == [p \in DOMAIN g |-> g[p].value]

\* C8: in every interleaving, once game_over is true no advance() commits a
\* new grid or runs the growth path: the cells' kinds, the head reference and
\* the score never change again.
C8_FrozenAfterGameOver ==
    [][game_over => (Kinds(grid') = Kinds(grid) /\ head' = head /\ score' = score)]_vars

\* C9: after construction of a game of at least two cells the grid has rows x
\* cols cells, exactly one is Head and carries a heading, the head reference
\* is that cell, exactly one other cell is Food, all others are Empty without
\* heading, score is 0 and game_over and quit are false.
C9_Constructed ==
    (phase = "constructed" /\ row_count * col_count >= 2) =>
        /\ DOMAIN grid = (0 .. row_count - 1) \X (0 .. col_count - 1)
        /\ \E h \in DOMAIN grid :
              /\ grid[h].value = HEAD
              /\ grid[h].moving \in Direction
              /\ head = h
              /\ \E f \in DOMAIN grid \ {h} :
                    /\ grid[f] = [value |-> FOOD, moving |-> None]
                    /\ \A p \in DOMAIN grid \ {h, f} :
                          grid[p] = [value |-> EMPTY, moving |-> None]
        /\ score = 0
        /\ ~game_over
        /\ ~quit

\* A game of two rows and three columns has just been constructed.
C9_Witness ==
    /\ phase = "constructed"
    /\ row_count = 2
    /\ col_count = 3
    /\ Cardinality(FoodCells(grid)) = 1

\* C10: at most one thread is inside advance() at any time, and grid_lock is
\* held exactly while a thread is inside: it is free whenever none is, also
\* after a thread ended inside advance() on a collision.
C10_MutualExclusion ==
    /\ Cardinality({t \in Threads : InAdvance(t)}) <= 1
    /\ \A t \in Threads : InAdvance(t) <=> grid_lock = t
    /\ (\A t \in Threads : ~InAdvance(t)) => grid_lock = "free"

\* The tick thread ended on a collision and the input thread has since taken
\* the lock and is inside advance().
C10_Witness ==
    /\ game_over
    /\ pc["tick"] = "exited"
    /\ InAdvance("input")
    /\ grid_lock = "input"

\* The step with which the input thread enters the move_snake it called for
\* the direction it accepted.
InputAdvanceStarts == pc["input"] = "acquire" /\ pc'["input"] = "scan"

\* C11: in every interleaving, when the input thread has accepted a direction
\* d, the Head cell of the current grid carries heading d when the advance()
\* called for that input starts, and that advance moves the Head one cell in
\* direction d, or ends the game by collision, or grows onto the Food in
\* direction d.
C11_AcceptedDirectionDrivesAdvance ==
    [][/\ InputAdvanceStarts =>
              /\ grid[head].value = HEAD
              /\ grid[head].moving = inp.dir
       /\ (Returns("input") /\ pre.by = "input") =>
              LET target == ExpectedLocation(row_count, col_count,
                                             pre.head[1], pre.head[2], pre.dir)
              IN  \/ outcome' = "collision"
                  \/ /\ outcome' = "moved"
                     /\ head' = target
                     /\ grid'[target] = [value |-> HEAD, moving |-> pre.dir]
                  \/ /\ outcome' = "growth"
                     /\ pre.food = target
                     /\ head' = target
                     /\ grid'[target] = [value |-> HEAD, moving |-> pre.dir]]_vars

\* C12: opposite is total and involutive on the four directions:
\* opposite(opposite(d)) = d for every d, Left and Right are each other's
\* opposite and so are Up and Down, so opposite(d) is never d.
C12_OppositeInvolutive ==
    fn.stage = "back" =>
        /\ fn.opp \in Direction
        /\ fn.twice = fn.d
        /\ {fn.d, fn.opp} \in {{LEFT, RIGHT}, {UP, DOWN}}
        /\ fn.opp # fn.d

\* The opposite of RIGHT, and the opposite of that, were computed.
C12_Witness ==
    /\ fn.stage = "back"
    /\ fn.d = RIGHT
    /\ fn.opp = LEFT
    /\ fn.twice = RIGHT

\* ------------------------------------------------ fair scheduling
\* The steps of each thread of control.
MainStep == InitiateHead \/ InitFood \/ StartGame \/ DisplayScore
TickStep == TickLoop \/ TickSleep \/ Step("tick")
InputStep == InputLoop \/ (\E c \in Chars : TakeInput(c)) \/ WriteHeading \/ Step("input")

\* Every thread that can take a step eventually takes one; a read of the input
\* source always returns (a character, or no data).
LiveSpec ==
    /\ Init
    /\ [][Next]_vars
    /\ WF_vars(MainStep)
    /\ WF_vars(TickStep)
    /\ WF_vars(InputStep)

\* The exploration stops at a Head facing the Food with score = MaxScore.
GrowthCut ==
    \E t \in Threads :
        /\ pc[t] = "scan"
        /\ mv[t].k < row_count * col_count
        /\ score = MaxScore
        /\ LET p == PosOf(mv[t].k)
           IN  /\ grid[p].value = HEAD
               /\ grid[p].moving # None
               /\ grid[next_location(row_count, col_count, p[1], p[2], grid[p].moving)].value
                     = FOOD

\* C13: once game_over or quit has been set, both threads eventually
\* terminate, the joins return and the final score is reported (behaviours cut
\* by the exploration bound on the score aside).
C13_TerminatesAfterFlag ==
    (game_over \/ quit) ~>
        \/ /\ \A t \in Threads : pc[t] \in Terminated
           /\ phase = "reported"
        \/ GrowthCut

\* The steps of take_input that read the head reference (with the test of the
\* new direction) and that write the heading through it.
ReadsHeadReference == pc["input"] = "read" /\ pc'["input"] \in {"write", "crashed"}
WritesHeading == pc["input"] = "write" /\ pc'["input"] = "acquire"

\* C14: the input thread's read of the head reference and its write of the
\* new heading are serialized with advance() by the grid lock: neither happens
\* while the tick thread is inside advance().
C14_HeadingWriteSerialized ==
    [][(ReadsHeadReference \/ WritesHeading) => ~InAdvance("tick") /\ grid_lock # "tick"]_vars

BodyCells(g) == {p \in DOMAIN g : g[p].value = BODY}

\* The cell the snake cell at p points at.
Ahead(p) == next_location(row_count, col_count, p[1], p[2], grid[p].moving)

\* Following headings from p reaches the Head through Body cells only and
\* without coming back to a cell of seen.
RECURSIVE LeadsToHead(_, _)
LeadsToHead(p, seen) ==
    IF grid[p].value = HEAD THEN TRUE
    ELSE IF grid[p].value # BODY \/ grid[p].moving = None \/ p \in seen THEN FALSE
    ELSE LeadsToHead(Ahead(p), seen \cup {p})

\* C15: in every state reachable by any interleaving, observed when no thread
\* holds the lock and the game is not over, the snake is one connected simple
\* path: every Body cell points at a Body or Head cell, and following headings
\* from any Body cell reaches the Head without revisiting a cell.
C15_SnakeIsPath ==
    (phase = "running" /\ grid_lock = "free" /\ ~game_over) =>
        \A p \in BodyCells(grid) :
            /\ grid[p].moving # None
            /\ grid[Ahead(p)].value \in {BODY, HEAD}
            /\ LeadsToHead(p, {})

\* The step in which thread t draws a frame of the grid as it is then.
Draws(t) == pc[t] = "render" /\ pc'[t] = "loop"

\* C16: every grid a render call reads is a committed grid: in every
\* interleaving each frame drawn by either thread shows exactly one Head and
\* exactly one Food, never an intermediate state of an advance() in progress in
\* the other thread, the in-place growth path included.
C16_FramesAreCommitted ==
    [][\A t \in Threads :
          Draws(t) =>
              LET frame == render_screen(grid)
              IN  /\ Cardinality({p \in DOMAIN frame : frame[p] = HEAD}) = 1
                  /\ Cardinality({p \in DOMAIN frame : frame[p] = FOOD}) = 1
                  /\ \A u \in Threads \ {t} : pc[u] \notin {"grow", "new_food"}]_vars

\* The step with which the tick thread enters move_snake.
TickAdvanceStarts == pc["tick"] = "acquire" /\ pc'["tick"] = "scan"

\* C17: the tick thread runs an iteration (sleep, advance(), render) only
\* while neither quit nor game_over is set: it never starts an advance() in an
\* iteration whose loop test happened after game_over was set by the input
\* thread.
C17_NoTickAfterGameOver ==
    [][TickAdvanceStarts => ~tickHist.over]_vars

\* The step in which take_input handles the quit character.
ReadsQuit == pc["input"] = "read" /\ pc'["input"] # "read" /\ inputResult'.char = "q"

\* C18: after the input thread reads the quit character it sets quit and
\* stops, and the tick thread starts at most one further advance() after quit
\* was set (the one of the iteration already past its loop test), then leaves
\* its loop at its next loop test.
C18_QuitWithinOneTick ==
    /\ [][ReadsQuit => quit' /\ pc'["input"] = "exited"]_vars
    /\ [](quit => pc["input"] = "exited" /\ tickHist.afterQuit <= 1)
    /\ [][(TickAdvanceStarts /\ quit) => tickHist.afterQuit = 0]_vars
    /\ [][(quit /\ pc["tick"] = "loop" /\ pc'["tick"] # "loop") => pc'["tick"] = "done"]_vars

\* After quit was set the tick thread has started one more advance, completed
\* it and left its loop.
C18_Witness ==
    /\ quit
    /\ pc["input"] = "exited"
    /\ tickHist.afterQuit = 1
    /\ pc["tick"] = "done"

\* The running advance() is neither a growth nor a collision: the Head's
\* target at entry is neither the Food nor a Body cell.
NormalCase ==
    /\ pre.grid[pre.head].value = HEAD
    /\ pre.grid[PreTarget].value \notin {FOOD, BODY}

\* The cell the snake cell at p pointed at when the running advance() began.
PreAhead(p) ==
    ExpectedLocation(row_count, col_count, p[1], p[2], pre.grid[p].moving)

\* C19: chain propagation.  On a non-growth, non-collision advance() every
\* Body cell at p with heading h ends at next_location(p, h) carrying the
\* heading that the cell at that destination had before the tick; the segment
\* directly behind the Head ends on the Head's old position with the Head's
\* heading at the time of the advance.
C19_ChainPropagation ==
    [][\A t \in Threads :
          (Returns(t) /\ NormalCase) =>
              \A p \in BodyCells(pre.grid) :
                  /\ grid'[PreAhead(p)] =
                        [value |-> BODY, moving |-> pre.grid[PreAhead(p)].moving]
                  /\ PreAhead(p) = pre.head =>
                        grid'[pre.head] = [value |-> BODY, moving |-> PreHeading]]_vars

\* C20: on a non-growth, non-collision advance() the Head ends at
\* next_location(its position, its heading) with its heading unchanged, and
\* the head reference designates that cell of the newly committed grid; from
\* column cols-1 heading Right it arrives at column 0 of the same row, never
\* outside the grid.
C20_HeadAdvances ==
    [][\A t \in Threads :
          (Returns(t) /\ NormalCase) =>
              /\ grid'[PreTarget] = [value |-> HEAD, moving |-> PreHeading]
              /\ head' = PreTarget
              /\ head' \in (0 .. row_count - 1) \X (0 .. col_count - 1)
              /\ (pre.head[2] = col_count - 1 /\ PreHeading = RIGHT) =>
                    head' = <<pre.head[1], 0>>]_vars

\* The tail of the snake when the running advance() began: the snake cell no
\* other snake cell pointed at.
PreTail ==
    {p \in SnakeCells(pre.grid) :
        \A q \in SnakeCells(pre.grid) \ {p} : pre.grid[q].moving = None \/ PreAhead(q) # p}

\* C21: frame of a normal tick.  A non-growth, non-collision advance() leaves
\* the Food position, score, tick interval and both flags unchanged, and the
\* only position that turns from snake-occupied to Empty is the former tail
\* position.
C21_NormalTickFrame ==
    [][\A t \in Threads :
          (Returns(t) /\ NormalCase) =>
              /\ food' = pre.food
              /\ FoodCells(grid') = FoodCells(pre.grid)
              /\ score' = pre.score
              /\ sleep_time' = pre.sleep_time
              /\ game_over' = game_over
              /\ quit' = quit
              /\ \A p \in SnakeCells(pre.grid) :
                    grid'[p].value = EMPTY => p \in PreTail]_vars

\* A snake of three cells has just made a normal move that vacated a cell.
C21_Witness ==
    /\ outcome = "moved"
    /\ score = 2
    /\ Cardinality(SnakeCells(grid)) = 3
    /\ Cardinality(FoodCells(grid)) = 1
    /\ 100 * sleep_time.num = 81 * sleep_time.den

\* No in-place growth is in progress: the grid is a committed grid.
Committed == \A t \in Threads : pc[t] \notin {"grow", "new_food"}

\* The cell the scan of thread t is about to visit.
ScanAt(t) == PosOf(mv[t].k)

\* C22: in every reachable state of the committed grid every Head and Body
\* cell carries a heading and every Empty and Food cell carries none, so the
\* "moving is not None" assertion of advance() never fails.
C22_HeadingsWellFormed ==
    Committed =>
        /\ \A p \in DOMAIN grid :
              /\ grid[p].value \in {HEAD, BODY} => grid[p].moving \in Direction
              /\ grid[p].value \in {EMPTY, FOOD} => grid[p].moving = None
        /\ \A t \in Threads :
              (pc[t] = "scan" /\ mv[t].k < row_count * col_count
                 /\ grid[ScanAt(t)].value \in {HEAD, BODY}) =>
                    grid[ScanAt(t)].moving # None

\* C23: food is reached only through the Head: in every state reachable by any
\* interleaving of the two threads no Body cell's next_location under its
\* heading is the Food cell, so the "assert cell.is_head()" of the growth path
\* never fails.
C23_FoodOnlyThroughHead ==
    Committed =>
        /\ \A p \in BodyCells(grid) :
              grid[p].moving # None => grid[Ahead(p)].value # FOOD
        /\ \A t \in Threads :
              (pc[t] = "scan" /\ mv[t].k < row_count * col_count
                 /\ grid[ScanAt(t)].value \in {HEAD, BODY}
                 /\ grid[ScanAt(t)].moving # None
                 /\ grid[Ahead(ScanAt(t))].value = FOOD) =>
                    grid[ScanAt(t)].value = HEAD

\* C24: for every rows >= 1 and cols >= 1, 1 x 1 included, constructing the
\* game terminates with the Head placed and a Food placed on a cell other than
\* the Head.
C24_ConstructionTerminates ==
    /\ <>(phase = "constructed")
    /\ [](phase = "constructed" =>
             /\ head \in Pos
             /\ grid[head].value = HEAD
             /\ food \in Pos \ {head}
             /\ grid[food].value = FOOD)

\* C25: every advance() terminates and releases the grid lock: on a growth
\* tick the new Food is placed on an Empty cell in finitely many steps, also
\* when the snake after growing occupies every cell of the grid (behaviours
\* cut by the exploration bound on the score aside).
C25_AdvanceTerminates ==
    \A t \in Threads :
        InAdvance(t) ~> ((~InAdvance(t) /\ grid_lock # t) \/ GrowthCut)

\* C26: in every reachable state with no advance in progress the number of
\* snake-occupied cells (Head plus Body) equals score + 1 and the tick interval
\* is 0.9 to the power score (its initial value 1.0 multiplied by 0.9 exactly
\* score times); and score never decreases.
RECURSIVE Pow(_, _)
Pow(b, n) == IF n = 0 THEN 1 ELSE b * Pow(b, n - 1)

C26_ScoreLengthInterval ==
    /\ [](( phase \in {"constructed", "running", "reported"}
            /\ \A t \in Threads : ~InAdvance(t)) =>
               /\ Cardinality(SnakeCells(grid)) = score + 1
               /\ sleep_time.num * Pow(10, score) = sleep_time.den * Pow(9, score))
    /\ [][score' >= score]_vars

====
